---- MODULE Spec2Model ----
(***************************************************************************)
(* Model of two parts of OpenMDAO:                                         *)
(*   - Problem.setup / Problem.setup_vector   (openmdao/core/problem.py)   *)
(*   - DictionaryJacobian._iter_abs_keys / _apply                          *)
(*                         (openmdao/jacobians/dictionary_jacobian.py)     *)
(* Numbers are integers (exact arithmetic); numpy arrays are sequences,    *)
(* and an index stored in an array keeps its 0-based Python value.         *)
(***************************************************************************)
EXTENDS Integers, Sequences, FiniteSets, TLC

VARIABLES
    \* ---- Problem.setup ----
    pc,            \* where the running Problem method is: "idle", "pass", "VectorClass", "_setup_vector"
    passIdx,       \* index of the next pass of setup (pc = "pass") or of the next key (pc = "VectorClass")
    inSetup,       \* TRUE while setup() is on the stack (setup_vector may also be called on its own)
    VectorClass,   \* the VectorClass in use by the running call
    vec_name,      \* the vec_name argument of the running setup_vector
    called,        \* the passes the current (or last) setup() call has started, in order
    vectors,       \* the local dict `vectors` of setup_vector: key -> <<class, vec_name, typ>>
    rootVectors,   \* what root._setup_vector last received
    status,        \* how the last call ended: "none", "running", "returned", "raised"
    raisedBy,      \* the callee whose exception reached the caller, "" if none
    nSetup         \* number of calls made so far

setupVars == <<pc, passIdx, inSetup, VectorClass, vec_name, called, vectors, rootVectors,
               status, raisedBy, nSetup>>

\* ---- DictionaryJacobian and the linear vectors it is applied to ----
VARIABLES
    subjacs_info,  \* Jacobian._subjacs_info: abs_key -> the entry's metadata and value
    iter_keys,     \* DictionaryJacobian._iter_keys: (pathname, vec_name) -> list of keys
    randomize,     \* Jacobian._randomize
    d_inputs,      \* vec_name -> the system's linear input vector
    d_outputs,     \* vec_name -> the system's linear output vector
    d_residuals,   \* vec_name -> the system's linear residual vector
    lastCall,      \* history: arguments and outcome of the last _apply call
    buildCount,    \* history: abs_key -> how many times its 'csc'/'csc_val_map' were built
    nApply,        \* history: number of _apply calls so far
    nDefs,         \* history: number of sub-Jacobians defined so far
    nUpdates       \* history: number of value-only updates so far

jacVars == <<subjacs_info, iter_keys, randomize, d_inputs, d_outputs, d_residuals,
             lastCall, buildCount, nApply, nDefs, nUpdates>>

vars == <<setupVars, jacVars>>

\* ---------------------------------------------------------------------------
\* Bounds
\* ---------------------------------------------------------------------------
MaxSetup == 3
MaxApply == 2
MaxDefs == 2
MaxUpdates == 1

\* ---------------------------------------------------------------------------
\* Problem.setup
\* ---------------------------------------------------------------------------

\* (mutant) the assembler's variable setup moved before the solver setup
SetupPassesSwapped ==
    << "root._setup_processors",
       "root._setup_variables",
       "root._setup_variable_indices",
       "root._setup_connections",
       "assembler._setup_variables",
       "root._setup_solvers",
       "assembler._setup_connections",
       "assembler._setup_input_indices" >>

\* The calls setup() makes before the vector setup, in program order.
SetupPasses ==
    << "root._setup_processors",
       "root._setup_variables",
       "root._setup_variable_indices",
       "root._setup_connections",
       "root._setup_solvers",
       "assembler._setup_variables",
       "assembler._setup_connections",
       "assembler._setup_input_indices" >>

\* for key in ['input', 'output', 'residual']
VectorKeys == << "input", "output", "residual" >>

\* typ = 'output' if key is 'residual' else key
VectorTyp(key) == IF key = "residual" THEN "output" ELSE key

DefaultVector == "DefaultVector"

VectorClassArgs == {"None", "PetscVector"}

VecNameArgs == {"None", "linear"}

NoVectors == [k \in {} |-> <<>>]

SetupInit ==
    /\ pc = "idle"
    /\ passIdx = 0
    /\ inSetup = FALSE
    /\ VectorClass = "None"
    /\ vec_name = "None"
    /\ called = <<>>
    /\ vectors = NoVectors
    /\ rootVectors = NoVectors
    /\ status = "none"
    /\ raisedBy = ""
    /\ nSetup = 0

\* An exception leaves the running method(s): neither setup nor setup_vector catches.
Propagate(callee) ==
    /\ pc' = "idle"
    /\ passIdx' = 0
    /\ inSetup' = FALSE
    /\ status' = "raised"
    /\ raisedBy' = callee

\* problem.setup(VectorClass): entry, up to the first call.
setup(arg) ==
    /\ pc = "idle"
    /\ nSetup < MaxSetup
    /\ nSetup' = nSetup + 1
    /\ pc' = "pass"
    /\ passIdx' = 1
    /\ inSetup' = TRUE
    /\ VectorClass' = IF arg = "None" THEN DefaultVector ELSE arg
    /\ called' = <<>>
    /\ status' = "running"
    /\ raisedBy' = ""
    /\ UNCHANGED <<vec_name, vectors, rootVectors>>
    /\ UNCHANGED jacVars

\* One of the root / assembler passes: it returns (ok) or raises.
SetupPass(ok) ==
    /\ pc = "pass"
    /\ passIdx \in 1..Len(SetupPasses)
    /\ called' = Append(called, SetupPasses[passIdx])
    /\ IF ok
       THEN /\ passIdx' = passIdx + 1
            /\ UNCHANGED <<pc, inSetup, status, raisedBy>>
       ELSE Propagate(SetupPasses[passIdx])
    /\ UNCHANGED <<VectorClass, vec_name, vectors, rootVectors, nSetup>>
    /\ UNCHANGED jacVars

\* self.setup_vector(None, VectorClass), the last statement of setup before return.
SetupCallsSetupVector ==
    /\ pc = "pass"
    /\ passIdx = Len(SetupPasses) + 1
    /\ called' = Append(called, "setup_vector")
    /\ pc' = "VectorClass"
    /\ passIdx' = 1
    /\ vec_name' = "None"
    /\ vectors' = NoVectors
    /\ UNCHANGED <<inSetup, VectorClass, rootVectors, status, raisedBy, nSetup>>
    /\ UNCHANGED jacVars

\* problem.setup_vector(vec_name, VectorClass) called directly.
setup_vector(name, cls) ==
    /\ pc = "idle"
    /\ nSetup < MaxSetup
    /\ nSetup' = nSetup + 1
    /\ pc' = "VectorClass"
    /\ passIdx' = 1
    /\ inSetup' = FALSE
    /\ VectorClass' = cls
    /\ vec_name' = name
    /\ vectors' = NoVectors
    /\ called' = <<>>
    /\ status' = "running"
    /\ raisedBy' = ""
    /\ UNCHANGED rootVectors
    /\ UNCHANGED jacVars

\* vectors[key] = VectorClass(vec_name, typ, self.root)
MakeVector(ok) ==
    /\ pc = "VectorClass"
    /\ passIdx \in 1..Len(VectorKeys)
    /\ IF ok
       THEN /\ vectors' = vectors @@
                  (VectorKeys[passIdx] :> <<VectorClass, vec_name, VectorTyp(VectorKeys[passIdx])>>)
            /\ IF passIdx = Len(VectorKeys)
               THEN pc' = "_setup_vector" /\ passIdx' = 0
               ELSE pc' = pc /\ passIdx' = passIdx + 1
            /\ UNCHANGED <<inSetup, status, raisedBy>>
       ELSE /\ Propagate("VectorClass")
            /\ UNCHANGED vectors
    /\ UNCHANGED <<VectorClass, vec_name, called, rootVectors, nSetup>>
    /\ UNCHANGED jacVars

\* self.root._setup_vector(vectors); then setup_vector returns, and setup returns self.
RootSetupVector(ok) ==
    /\ pc = "_setup_vector"
    /\ IF ok
       THEN /\ rootVectors' = vectors
            /\ pc' = "idle"
            /\ passIdx' = 0
            /\ inSetup' = FALSE
            /\ status' = "returned"
            /\ UNCHANGED raisedBy
       ELSE /\ Propagate("root._setup_vector")
            /\ UNCHANGED rootVectors
    /\ UNCHANGED <<VectorClass, vec_name, called, vectors, nSetup>>
    /\ UNCHANGED jacVars

\* ---------------------------------------------------------------------------
\* Problem.setup: properties
\* ---------------------------------------------------------------------------

\* the order the contract lists
ExpectedOrder ==
    << "root._setup_processors", "root._setup_variables", "root._setup_variable_indices",
       "root._setup_connections", "root._setup_solvers", "assembler._setup_variables",
       "assembler._setup_connections", "assembler._setup_input_indices", "setup_vector" >>

\* C1: the passes a setup() call has started are always an initial part of the
\* listed order (so each runs once, after all earlier ones returned); a call
\* that returned ran all nine; and when a pass raised, it is the last pass
\* started, the exception reached the caller and the method is no longer
\* running.
C1_SetupOrder ==
    /\ \E n \in 0..Len(ExpectedOrder) : called = SubSeq(ExpectedOrder, 1, n)
    /\ (status = "returned" /\ called # <<>>) => called = ExpectedOrder
    /\ inSetup => status = "running"
    /\ raisedBy # "" => (status = "raised" /\ pc = "idle")
    /\ status = "raised" => raisedBy # ""
    /\ (status = "raised" /\ called # <<>>) =>
          \/ called[Len(called)] = raisedBy
          \/ (called = ExpectedOrder /\ raisedBy \in {"VectorClass", "root._setup_vector"})

\* a setup() call in which the fourth pass raised
C1_Witness ==
    /\ status = "raised"
    /\ raisedBy = "root._setup_connections"
    /\ called = SubSeq(ExpectedOrder, 1, 4)

\* a setup() call that ran all its passes and returned
C1_WitnessReturned == status = "returned" /\ called = ExpectedOrder

\* ---------------------------------------------------------------------------
\* numpy / scipy.sparse operations used by DictionaryJacobian
\* ---------------------------------------------------------------------------

\* a[i] for a 0-based Python index i
At(a, i) == a[i + 1]

\* np.arange(n, dtype=int)
Arange(n) == [k \in 1..n |-> k - 1]

RECURSIVE SumSeq(_)
SumSeq(a) == IF a = <<>> THEN 0 ELSE a[1] + SumSeq(Tail(a))

\* the ascending sequence of the integers of a finite set
RECURSIVE SortedSeq(_)
SortedSeq(S) ==
    IF S = {} THEN <<>>
    ELSE LET m == CHOOSE x \in S : \A y \in S : x <= y
         IN <<m>> \o SortedSeq(S \ {m})

\* a + b, a - b elementwise
VecAdd(a, b) == [k \in 1..Len(a) |-> a[k] + b[k]]
VecSub(a, b) == [k \in 1..Len(a) |-> a[k] - b[k]]

\* x . y
Dot(x, y) == SumSeq([k \in 1..Len(x) |-> x[k] * y[k]])

\* scipy.sparse.csc_matrix((data, (rows, cols)), shape=shape): the entries in
\* column-major order, row indices sorted within a column, and the data of
\* entries at the same (row, col) summed into one stored element.
\* `indices` holds each stored element's row and `col` its column (the column
\* that indptr assigns it).
CscMatrix(data, rows, cols, shape) ==
    LET nrow == shape[1]
        pos  == SortedSeq({cols[k] * nrow + rows[k] : k \in 1..Len(rows)})
    IN [ data    |-> [p \in 1..Len(pos) |->
                        SumSeq([k \in 1..Len(rows) |->
                                  IF cols[k] * nrow + rows[k] = pos[p] THEN data[k] ELSE 0])],
         indices |-> [p \in 1..Len(pos) |-> pos[p] % nrow],
         col     |-> [p \in 1..Len(pos) |-> pos[p] \div nrow],
         shape   |-> shape ]

\* csc.dot(x) for a single column x
CscDot(csc, x) ==
    [r \in 1..csc.shape[1] |->
        SumSeq([p \in 1..Len(csc.data) |->
                  IF csc.indices[p] = r - 1 THEN csc.data[p] * At(x, csc.col[p]) ELSE 0])]

\* csc.transpose().dot(y) for a single column y
CscTransposeDot(csc, y) ==
    [c \in 1..csc.shape[2] |->
        SumSeq([p \in 1..Len(csc.data) |->
                  IF csc.col[p] = c - 1 THEN csc.data[p] * At(y, csc.indices[p]) ELSE 0])]

\* np.argsort(a): the 0-based positions of a in ascending order of value
\* (ties in position order)
Argsort(a) ==
    LET keyed == SortedSeq({a[k] * (Len(a) + 1) + (k - 1) : k \in 1..Len(a)})
    IN [j \in 1..Len(a) |-> keyed[j] % (Len(a) + 1)]

\* np.add.at(target, idx, vals): target[idx[k]] += vals[k] for every k, unbuffered
AddAt(target, idx, vals) ==
    [r \in 1..Len(target) |->
        target[r] + SumSeq([k \in 1..Len(idx) |-> IF idx[k] = r - 1 THEN vals[k] ELSE 0])]

\* a[idx] * b  (fancy indexing, then the elementwise product)
TakeTimes(a, idx, b) == [k \in 1..Len(idx) |-> At(a, idx[k]) * b[k]]

\* subjac.dot(x) for a dense subjac of the given shape, stored row-major
DenseDot(subjac, shape, x) ==
    [r \in 1..shape[1] |->
        SumSeq([c \in 1..shape[2] |-> subjac[(r - 1) * shape[2] + c] * x[c]])]

\* subjac.T.dot(y)
DenseTDot(subjac, shape, y) ==
    [c \in 1..shape[2] |->
        SumSeq([r \in 1..shape[1] |-> subjac[(r - 1) * shape[2] + c] * y[r]])]

\* ---------------------------------------------------------------------------
\* The model the Jacobian is applied to: two systems, three variables
\* ---------------------------------------------------------------------------

\* system.pathname of the two systems _apply is called with: the root group
\* and the explicit component "e" inside it
RootPath == ""
CompPath == "e"
Systems == {RootPath, CompPath}

\* isinstance(system, ExplicitComponent)
IsExplicit(system) == system = CompPath

VecNames == {"linear", "rhs1"}

OutputVars == {"e.y", "g.z"}
InputVars == {"e.x"}
VarSize == [v \in OutputVars \cup InputVars |-> IF v = "g.z" THEN 2 ELSE 3]

\* system._var_relevant_names[vec_name][type_], fixed by setup
var_relevant_names ==
    [s \in Systems |->
       [vn \in VecNames |->
          IF s = RootPath /\ vn = "linear"
          THEN [output |-> <<"e.y", "g.z">>, input |-> <<"e.x">>]
          ELSE [output |-> <<"e.y">>, input |-> <<"e.x">>]]]

AllKeys == (OutputVars \X (OutputVars \cup InputVars))

\* ---------------------------------------------------------------------------
\* Sub-Jacobian entries
\* ---------------------------------------------------------------------------

NoCsc == [data |-> <<>>, indices |-> <<>>, col |-> <<>>, shape |-> <<0, 0>>]
FullSlice == [full |-> TRUE, inds |-> <<>>]

\* a dense entry: 'rows' and 'cols' are None, 'value' is the 2-D array (row-major)
Dense(shape, value) ==
    [hasRows |-> FALSE, rows |-> <<>>, cols |-> <<>>, value |-> value, shape |-> shape,
     hasCsc |-> FALSE, csc |-> NoCsc, csc_val_map |-> FullSlice]

\* a sparse entry in COO (row/col list) format: 'value' is the flat array of the
\* values at (rows[k], cols[k])
Coo(rows, cols, value, shape) ==
    [hasRows |-> TRUE, rows |-> rows, cols |-> cols, value |-> value, shape |-> shape,
     hasCsc |-> FALSE, csc |-> NoCsc, csc_val_map |-> FullSlice]

Dense2I == Dense(<<3, 3>>, <<2, 0, 0,  0, 2, 0,  0, 0, 2>>)
DenseWide == Dense(<<2, 3>>, <<1, 0, 2,  0, 3, 1>>)
\* the diagonal entry an explicit component declares for its own output
CooMinusI == Coo(<<0, 1, 2>>, <<0, 1, 2>>, <<-1, -1, -1>>, <<3, 3>>)
\* entries already in column-major order
CooSorted == Coo(<<0, 2, 1>>, <<0, 0, 2>>, <<1, 2, 3>>, <<3, 3>>)
\* entries in another order
CooUnsorted == Coo(<<1, 0, 2, 0>>, <<2, 0, 0, 2>>, <<3, 1, 2, 5>>, <<3, 3>>)
\* the position (0, 1) listed twice
CooDuplicate == Coo(<<0, 0, 1>>, <<1, 1, 0>>, <<1, 2, 3>>, <<3, 3>>)

\* what a component may declare for each key
SubjacLibrary(key) ==
    CASE key = <<"e.y", "e.y">> -> {CooMinusI}
      [] key = <<"e.y", "e.x">> -> {Dense2I, CooSorted, CooUnsorted, CooDuplicate}
      [] key = <<"g.z", "e.x">> -> {DenseWide}
      [] OTHER -> {}

\* the values a later derivative computation may write over an entry's value
ValueUpdates == {1}
NewValue(value, u) == [k \in 1..Len(value) |-> value[k] * (u + 1) + u * k]

\* Jacobian._randomize_subjac(subjac, key): random values with the shape (and,
\* for a sparse entry, the pattern) of subjac
RandSeeds == {1, 2}
RandomizeSubjac(subjac, key, rsel) == [k \in 1..Len(subjac) |-> rsel + (k % 2)]

\* ---------------------------------------------------------------------------
\* DictionaryJacobian._iter_abs_keys
\* ---------------------------------------------------------------------------

\* np.all(np.arange(rows.size) == inds): an elementwise comparison of arrays of
\* different sizes is not elementwise at all, and its result is False (the
\* numpy this code was written for; a numpy that raises on the comparison
\* raises the same ValueError, from _iter_abs_keys instead of from _apply)
IsArange(inds, n) == Len(inds) = n /\ \A k \in 1..n : inds[k] = k - 1

\* The body of `if rows is not None:`: the COO-to-CSC value map and the CSC
\* matrix of the entry.
BuildCsc(info) ==
    LET n    == Len(info.rows)
        inds == CscMatrix(Arange(n), info.rows, info.cols, info.shape).data
    IN [info EXCEPT
          !.hasCsc = TRUE,
          !.csc_val_map = IF IsArange(inds, n) THEN FullSlice
                          ELSE [full |-> FALSE, inds |-> Argsort(inds)],
          !.csc = CscMatrix(info.value, info.rows, info.cols, info.shape)]

\* The body of the innermost loop for one (res_name, name): acc holds the key
\* list so far, subjacs and the keys built so far.
VisitKey(acc, key) ==
    IF key \in DOMAIN acc.subjacs
    THEN IF acc.subjacs[key].hasRows
         THEN [keys    |-> Append(acc.keys, key),
               subjacs |-> [acc.subjacs EXCEPT ![key] = BuildCsc(@)],
               built   |-> Append(acc.built, key)]
         ELSE [acc EXCEPT !.keys = Append(@, key)]
    ELSE acc

\* for name in system._var_relevant_names[vec_name][type_]
RECURSIVE VisitNames(_, _, _, _)
VisitNames(acc, res_name, names, k) ==
    IF k > Len(names) THEN acc
    ELSE VisitNames(VisitKey(acc, <<res_name, names[k]>>), res_name, names, k + 1)

\* (mutant) for type_ in ('input', 'output')
RECURSIVE VisitResponsesInputsFirst(_, _, _)
VisitResponsesInputsFirst(acc, rel, k) ==
    IF k > Len(rel.output) THEN acc
    ELSE VisitResponsesInputsFirst(
             VisitNames(VisitNames(acc, rel.output[k], rel.input, 1),
                        rel.output[k], rel.output, 1),
             rel, k + 1)

\* for res_name in ...['output']: for type_ in ('output', 'input'): ...
RECURSIVE VisitResponses(_, _, _)
VisitResponses(acc, rel, k) ==
    IF k > Len(rel.output) THEN acc
    ELSE VisitResponses(
             VisitNames(VisitNames(acc, rel.output[k], rel.output, 1),
                        rel.output[k], rel.input, 1),
             rel, k + 1)

\* (mutant) the key list is computed on every call
IterAbsKeysNoCache(system, vn, cache, subjacs) ==
    LET entry == <<system, vn>>
        acc == VisitResponses([keys |-> <<>>, subjacs |-> subjacs, built |-> <<>>],
                              var_relevant_names[system][vn], 1)
    IN [keys |-> acc.keys,
        cache |-> [e \in DOMAIN cache \cup {entry} |-> IF e = entry THEN acc.keys ELSE cache[e]],
        subjacs |-> acc.subjacs, built |-> acc.built, hit |-> entry \in DOMAIN cache]

\* _iter_abs_keys(system, vec_name): the key list, with the cache and the
\* subjacs as it leaves them
IterAbsKeys(system, vn, cache, subjacs) ==
    LET entry == <<system, vn>>
    IN IF entry \notin DOMAIN cache
       THEN LET acc == VisitResponses([keys |-> <<>>, subjacs |-> subjacs, built |-> <<>>],
                                      var_relevant_names[system][vn], 1)
            IN [keys |-> acc.keys, cache |-> cache @@ (entry :> acc.keys),
                subjacs |-> acc.subjacs, built |-> acc.built, hit |-> FALSE]
       ELSE [keys |-> cache[entry], cache |-> cache, subjacs |-> subjacs,
             built |-> <<>>, hit |-> TRUE]

\* ---------------------------------------------------------------------------
\* DictionaryJacobian._apply
\* ---------------------------------------------------------------------------

\* csc.data[inds] = subjac.  The assignment needs as many values as positions
\* (or a single value, which is broadcast); otherwise numpy raises ValueError.
SetCscData(csc, map, subjac) ==
    LET npos == IF map.full THEN Len(csc.data) ELSE Len(map.inds)
    IN IF Len(subjac) = npos
       THEN [ok |-> TRUE,
             csc |-> [csc EXCEPT !.data =
                        IF map.full THEN subjac
                        ELSE [p \in 1..Len(csc.data) |->
                                IF \E k \in 1..npos : map.inds[k] = p - 1
                                THEN subjac[CHOOSE k \in 1..npos :
                                              map.inds[k] = p - 1 /\
                                              \A j \in 1..npos : map.inds[j] = p - 1 => j <= k]
                                ELSE csc.data[p]]]]
       ELSE IF Len(subjac) = 1
       THEN [ok |-> TRUE,
             csc |-> [csc EXCEPT !.data =
                        [p \in 1..Len(csc.data) |->
                           IF map.full \/ \E k \in 1..npos : map.inds[k] = p - 1
                           THEN subjac[1] ELSE csc.data[p]]]]
       ELSE [ok |-> FALSE, csc |-> csc]

\* (mutant) the shortcut adds: rflat[res_name] += oflat[other_name]
IdentityShortcutAdds(target, operand) ==
    [c \in 1..Len(target) |-> VecAdd(target[c], operand[c])]

\* the identity shortcut, forward: rflat[res_name] -= oflat[other_name]
\* (and reverse, with the roles exchanged)
IdentityShortcut(target, operand) ==
    [c \in 1..Len(target) |-> VecSub(target[c], operand[c])]

\* (mutant) every column's product is taken with the first column of the operand
SparseFwdFirstColumn(ncol, target, operand, rows, cols, subjac, csc) ==
    IF ncol > 1
    THEN [c \in 1..ncol |-> AddAt(target[c], rows, TakeTimes(operand[1], cols, subjac))]
    ELSE <<VecAdd(target[1], CscDot(csc, operand[1]))>>

\* sparse, forward: np.add.at per column when ncol > 1, else += csc.dot(operand)
SparseFwd(ncol, target, operand, rows, cols, subjac, csc) ==
    IF ncol > 1
    THEN [c \in 1..ncol |-> AddAt(target[c], rows, TakeTimes(operand[c], cols, subjac))]
    ELSE <<VecAdd(target[1], CscDot(csc, operand[1]))>>

\* (mutant) the reverse product without the transposition: rows and cols keep
\* their forward roles
SparseRevNotTransposed(ncol, target, residual, rows, cols, subjac, csc) ==
    IF ncol > 1
    THEN [c \in 1..ncol |-> AddAt(target[c], rows, TakeTimes(residual[c], cols, subjac))]
    ELSE <<VecAdd(target[1], CscDot(csc, residual[1]))>>

\* sparse, reverse: np.add.at per column when ncol > 1, else += csc.transpose().dot(residual)
SparseRev(ncol, target, residual, rows, cols, subjac, csc) ==
    IF ncol > 1
    THEN [c \in 1..ncol |-> AddAt(target[c], cols, TakeTimes(residual[c], rows, subjac))]
    ELSE <<VecAdd(target[1], CscTransposeDot(csc, residual[1]))>>

\* (mutant) the product is assigned: target = subjac.dot(operand)
DenseFwdAssigns(target, operand, subjac, shape) ==
    [c \in 1..Len(target) |-> DenseDot(subjac, shape, operand[c])]

\* dense, forward: target += subjac.dot(operand)
DenseFwd(target, operand, subjac, shape) ==
    [c \in 1..Len(target) |-> VecAdd(target[c], DenseDot(subjac, shape, operand[c]))]

\* dense, reverse: target += subjac.T.dot(residual)
DenseRev(target, residual, subjac, shape) ==
    [c \in 1..Len(target) |-> VecAdd(target[c], DenseTDot(subjac, shape, residual[c]))]

\* The general sparse branch for one key, against d_outputs (which = "o") or
\* d_inputs (which = "i").  st is the state of the loop: the three flat views,
\* the subjacs and the exception raised so far ("" if none).
SparseGeneral(st, abs_key, subjac, c, which) ==
    LET info == st.subjacs[abs_key]
        res_name == abs_key[1]
        other_name == abs_key[2]
        set == SetCscData(info.csc, info.csc_val_map, subjac)
        st1 == [st EXCEPT !.subjacs[abs_key].csc = set.csc]
    IN IF ~set.ok THEN [st EXCEPT !.raised = "ValueError"]
       ELSE IF c.fwd
       THEN [st1 EXCEPT !.r[res_name] =
               SparseFwd(c.ncol, @, st[which][other_name], info.rows, info.cols, subjac, set.csc)]
       ELSE [st1 EXCEPT ![which][other_name] =
               SparseRev(c.ncol, @, st.r[res_name], info.rows, info.cols, subjac, set.csc)]

\* What the loop does for a key whose response is in d_residuals._names.
\* c holds what _apply computes before the loop: fwd, ncol, the three _names
\* sets, is_explicit; and the Jacobian's _randomize with the outcome of the
\* random draw.
ApplyKeyActive(st, abs_key, c) ==
    LET subjac_info == st.subjacs[abs_key]
        subjac == IF c.randomize
                  THEN RandomizeSubjac(subjac_info.value, abs_key, c.rsel)
                  ELSE subjac_info.value
        res_name == abs_key[1]
        other_name == abs_key[2]
    IN      IF subjac_info.hasRows
            THEN IF other_name \in c.d_out_names
                 THEN IF res_name = other_name /\ c.is_explicit
                      THEN IF c.fwd
                           THEN [st EXCEPT !.r[res_name] = IdentityShortcut(@, st.o[other_name])]
                           ELSE [st EXCEPT !.o[other_name] = IdentityShortcut(@, st.r[res_name])]
                      ELSE SparseGeneral(st, abs_key, subjac, c, "o")
                 ELSE IF other_name \in c.d_inp_names
                 THEN SparseGeneral(st, abs_key, subjac, c, "i")
                 ELSE st
            ELSE IF other_name \in c.d_out_names
                 THEN IF c.fwd
                      THEN [st EXCEPT !.r[res_name] =
                              DenseFwd(@, st.o[other_name], subjac, subjac_info.shape)]
                      ELSE [st EXCEPT !.o[other_name] =
                              DenseRev(@, st.r[res_name], subjac, subjac_info.shape)]
                 ELSE IF other_name \in c.d_inp_names
                 THEN IF c.fwd
                      THEN [st EXCEPT !.r[res_name] =
                              DenseFwd(@, st.i[other_name], subjac, subjac_info.shape)]
                      ELSE [st EXCEPT !.i[other_name] =
                              DenseRev(@, st.r[res_name], subjac, subjac_info.shape)]
                 ELSE st

\* (mutant) the body is run for a response that is not in d_residuals._names
ApplyKeyNoNameCheck(st, abs_key, c) == ApplyKeyActive(st, abs_key, c)

\* The body of the loop over the keys, for one key: `if res_name in d_res_names:`
ApplyKey(st, abs_key, c) ==
    IF abs_key[1] \in c.d_res_names THEN ApplyKeyActive(st, abs_key, c) ELSE st

\* for abs_key in self._iter_abs_keys(...): an exception ends the loop.
\* st.done counts the keys whose loop body ran to its end.
RECURSIVE ApplyKeys(_, _, _, _)
ApplyKeys(st, keys, k, c) ==
    IF k > Len(keys) \/ st.raised # "" THEN st
    ELSE LET st1 == ApplyKey(st, keys[k], c)
         IN ApplyKeys(IF st1.raised = "" THEN [st1 EXCEPT !.done = k] ELSE st1, keys, k + 1, c)

\* system._unscaled_context(outputs=[d_outputs], residuals=[d_residuals]):
\* on entry the vectors show unscaled values, on exit they are as before.
\* The views the model keeps are the values the block sees.
UnscaledEnter(vec) == [vec EXCEPT !.scaled = FALSE]
UnscaledExit(vec, before) == [vec EXCEPT !.scaled = before.scaled]

\* (mutant) the context is entered and left by hand, with no try/finally:
\* an exception leaves the vectors unscaled
UnscaledContextNoFinally(d_out, d_res, inside_out, inside_res, raised) ==
    IF raised = ""
    THEN [d_outputs   |-> UnscaledExit(inside_out, d_out),
          d_residuals |-> UnscaledExit(inside_res, d_res)]
    ELSE [d_outputs |-> inside_out, d_residuals |-> inside_res]

\* `with system._unscaled_context(...):` around the loop: the context is
\* left when the block ends and when an exception leaves it.
WithUnscaledContext(d_out, d_res, inside_out, inside_res, raised) ==
    [d_outputs   |-> UnscaledExit(inside_out, d_out),
     d_residuals |-> UnscaledExit(inside_res, d_res)]

\* What _apply reads before the loop: fwd, the three _names, ncol,
\* is_explicit; with the Jacobian's _randomize and the outcome of its draw.
CallContext(system, d_inp, d_out, d_res, mode, rand, rsel) ==
    [fwd |-> mode = "fwd",
     d_res_names |-> d_res.names,
     d_out_names |-> d_out.names,
     d_inp_names |-> d_inp.names,
     ncol |-> d_res.ncol,
     is_explicit |-> IsExplicit(system),
     randomize |-> rand,
     rsel |-> rsel]

\* _apply(system, d_inputs, d_outputs, d_residuals, mode) on a Jacobian whose
\* state is (subjacs, cache, rand); rsel is the outcome of the random draw.
ApplyResult(system, d_inp, d_out, d_res, mode, subjacs, cache, rand, rsel) ==
    LET c   == CallContext(system, d_inp, d_out, d_res, mode, rand, rsel)
        in_out == UnscaledEnter(d_out)
        in_res == UnscaledEnter(d_res)
        ik  == IterAbsKeys(system, d_res.name, cache, subjacs)
        st  == ApplyKeys([r |-> in_res.views_flat, o |-> in_out.views_flat,
                          i |-> d_inp.views_flat, subjacs |-> ik.subjacs, raised |-> "",
                          done |-> 0],
                         ik.keys, 1, c)
        out == WithUnscaledContext(d_out, d_res,
                                   [in_out EXCEPT !.views_flat = st.o],
                                   [in_res EXCEPT !.views_flat = st.r], st.raised)
    IN [d_inputs |-> [d_inp EXCEPT !.views_flat = st.i],
        d_outputs |-> out.d_outputs,
        d_residuals |-> out.d_residuals,
        subjacs |-> st.subjacs,
        cache |-> ik.cache,
        keys |-> ik.keys,
        built |-> ik.built,
        hit |-> ik.hit,
        done |-> st.done,
        raised |-> st.raised]

\* ---------------------------------------------------------------------------
\* The vectors the Jacobian is applied to
\* ---------------------------------------------------------------------------

\* one column of values for every variable of every vector
Column(ry, rz, oy, oz, ix) ==
    [r |-> [v \in OutputVars |-> IF v = "e.y" THEN ry ELSE rz],
     o |-> [v \in OutputVars |-> IF v = "e.y" THEN oy ELSE oz],
     i |-> [v \in InputVars |-> ix]]

ColFwd == Column(<<0, 0, 0>>, <<0, 0>>, <<1, 1, 1>>, <<1, 1>>, <<1, 1, 1>>)
ColRev == Column(<<1, 1, 1>>, <<1, 1>>, <<0, 0, 0>>, <<0, 0>>, <<0, 0, 0>>)
ColMixed == Column(<<1, 2, 3>>, <<4, 5>>, <<2, 0, 1>>, <<3, 1>>, <<1, 3, 2>>)
ColZero == Column(<<0, 0, 0>>, <<0, 0>>, <<0, 0, 0>>, <<0, 0>>, <<0, 0, 0>>)

\* the columns of the vectors: one column, or several (multiple right-hand sides)
ContentChoices == {<<ColFwd>>, <<ColRev>>, <<ColMixed>>, <<ColMixed, ColFwd>>}

\* the _names of the three vectors, and whether d_outputs / d_residuals are scaled
NameChoices ==
    { [res |-> {"e.y", "g.z"}, out |-> {"e.y", "g.z"}, inp |-> {"e.x"},
       oScaled |-> TRUE, rScaled |-> TRUE],
      [res |-> {"e.y"}, out |-> {"g.z"}, inp |-> {"e.x"},
       oScaled |-> FALSE, rScaled |-> TRUE],
      [res |-> {"e.y", "g.z"}, out |-> {"e.y"}, inp |-> {},
       oScaled |-> FALSE, rScaled |-> FALSE] }

Views(content, role, varset) ==
    [v \in varset |-> [c \in 1..Len(content) |-> content[c][role][v]]]

MakeVec(vn, names, content, role, varset, scaled) ==
    [name |-> vn, names |-> names, ncol |-> Len(content),
     views_flat |-> Views(content, role, varset), scaled |-> scaled]

NoCall == [system |-> "", vec_name |-> "", mode |-> "", rsel |-> 0, raised |-> "",
           keys |-> <<>>, done |-> 0, hit |-> FALSE]

NoSubjacs == [k \in {} |-> Dense2I]
NoIterKeys == [e \in {} |-> <<>>]

\* A new DictionaryJacobian (__init__: _iter_keys = {}), no sub-Jacobian
\* declared yet, and the linear vectors as a solver hands them to _apply.
JacInitWith(content, nm, rand) ==
    /\ subjacs_info = NoSubjacs
    /\ iter_keys = NoIterKeys
    /\ randomize = rand
    /\ d_inputs = [vn \in VecNames |-> MakeVec(vn, nm.inp, content, "i", InputVars, FALSE)]
    /\ d_outputs = [vn \in VecNames |-> MakeVec(vn, nm.out, content, "o", OutputVars, nm.oScaled)]
    /\ d_residuals = [vn \in VecNames |-> MakeVec(vn, nm.res, content, "r", OutputVars, nm.rScaled)]
    /\ lastCall = NoCall
    /\ buildCount = [k \in AllKeys |-> 0]
    /\ nApply = 0
    /\ nDefs = 0
    /\ nUpdates = 0

\* the (columns, names, _randomize) combinations a behaviour may start from
Scenarios ==
    {<<content, nm, FALSE>> : content \in ContentChoices, nm \in NameChoices}
    \cup {<<content, nm, TRUE>> : content \in {<<ColMixed>>, <<ColMixed, ColFwd>>},
                                 nm \in {n \in NameChoices : n.oScaled /\ n.rScaled}}

JacInit == \E sc \in Scenarios : JacInitWith(sc[1], sc[2], sc[3])

\* ---------------------------------------------------------------------------
\* Actions on the Jacobian
\* ---------------------------------------------------------------------------

\* A component declares the sub-Jacobian of a key not defined before.
DefineSubjac(key, entry) ==
    /\ nDefs < MaxDefs
    /\ key \notin DOMAIN subjacs_info
    /\ subjacs_info' = subjacs_info @@ (key :> entry)
    /\ nDefs' = nDefs + 1
    /\ UNCHANGED <<iter_keys, randomize, d_inputs, d_outputs, d_residuals, lastCall,
                   buildCount, nApply, nUpdates>>
    /\ UNCHANGED setupVars

\* A derivative computation writes new values over a defined entry; its
\* pattern stays.
UpdateValue(key, u) ==
    /\ nUpdates < MaxUpdates
    /\ key \in DOMAIN subjacs_info
    /\ subjacs_info' = [subjacs_info EXCEPT ![key].value = NewValue(@, u)]
    /\ nUpdates' = nUpdates + 1
    /\ UNCHANGED <<iter_keys, randomize, d_inputs, d_outputs, d_residuals, lastCall,
                   buildCount, nApply, nDefs>>
    /\ UNCHANGED setupVars

\* jacobian._apply(system, d_inputs, d_outputs, d_residuals, mode) with the
\* system's vectors of one vec_name
Apply(system, vn, mode, rsel) ==
    /\ nApply < MaxApply
    /\ \E res \in {ApplyResult(system, d_inputs[vn], d_outputs[vn], d_residuals[vn], mode,
                              subjacs_info, iter_keys, randomize, rsel)} :
          /\ subjacs_info' = res.subjacs
          /\ iter_keys' = res.cache
          /\ d_inputs' = [d_inputs EXCEPT ![vn] = res.d_inputs]
          /\ d_outputs' = [d_outputs EXCEPT ![vn] = res.d_outputs]
          /\ d_residuals' = [d_residuals EXCEPT ![vn] = res.d_residuals]
          /\ buildCount' = [k \in AllKeys |->
                              buildCount[k] + Cardinality({j \in 1..Len(res.built) : res.built[j] = k})]
          /\ lastCall' = [system |-> system, vec_name |-> vn, mode |-> mode, rsel |-> rsel,
                          raised |-> res.raised, keys |-> res.keys, done |-> res.done,
                          hit |-> res.hit]
    /\ nApply' = nApply + 1
    /\ UNCHANGED <<randomize, nDefs, nUpdates>>
    /\ UNCHANGED setupVars

Next ==
    \/ \E key \in AllKeys : \E entry \in SubjacLibrary(key) : DefineSubjac(key, entry)
    \/ \E key \in AllKeys, u \in ValueUpdates : UpdateValue(key, u)
    \/ \E system \in Systems, vn \in VecNames, mode \in {"fwd", "rev"} :
          \E rsel \in (IF randomize THEN RandSeeds ELSE {0}) : Apply(system, vn, mode, rsel)

\* ---------------------------------------------------------------------------
\* Specifications
\* ---------------------------------------------------------------------------

Init == SetupInit /\ JacInit

Spec == Init /\ [][Next]_vars

SetupNext ==
    \/ \E arg \in VectorClassArgs : setup(arg)
    \/ \E ok \in BOOLEAN : SetupPass(ok)
    \/ SetupCallsSetupVector
    \/ \E name \in VecNameArgs, cls \in VectorClassArgs \ {"None"} : setup_vector(name, cls)
    \/ \E ok \in BOOLEAN : MakeVector(ok)
    \/ \E ok \in BOOLEAN : RootSetupVector(ok)

SetupSpecInit ==
    /\ SetupInit
    /\ JacInitWith(<<ColFwd>>, CHOOSE nm \in NameChoices : nm.oScaled /\ nm.rScaled, FALSE)

SetupSpec == SetupSpecInit /\ [][SetupNext]_vars

\* The entries of the Jacobian do not depend on the contents of the vectors:
\* behaviours on zero vectors, with and without _randomize and with every
\* variable active, reach every entry (pattern, value, csc) that Spec reaches.
EntryInit ==
    /\ SetupInit
    /\ \E rand \in BOOLEAN :
          JacInitWith(<<ColZero>>, CHOOSE nm \in NameChoices : nm.oScaled /\ nm.rScaled, rand)

\* the same actions, _apply on the "linear" vectors only
EntryNext ==
    \/ \E key \in AllKeys : \E entry \in SubjacLibrary(key) : DefineSubjac(key, entry)
    \/ \E key \in AllKeys : \E u \in ValueUpdates : UpdateValue(key, u)
    \/ \E system \in Systems : \E mode \in {"fwd", "rev"} :
          \E rsel \in (IF randomize THEN RandSeeds ELSE {0}) : Apply(system, "linear", mode, rsel)

EntrySpec == EntryInit /\ [][EntryNext]_vars

\* ---------------------------------------------------------------------------
\* DictionaryJacobian: properties
\* ---------------------------------------------------------------------------

\* a step that is one _apply call; lastCall' holds its arguments and outcome
ApplyStep == nApply' = nApply + 1

Range(seq) == {seq[j] : j \in 1..Len(seq)}

\* the relevance tables of the call's system and vec_name
RelevantOf(lc) == var_relevant_names[lc.system][lc.vec_name]

\* the triple filter on a pair: relevance, activeness, a defined sub-Jacobian
PassesFilter(res, src, lc) ==
    /\ res \in Range(RelevantOf(lc).output)
    /\ src \in Range(RelevantOf(lc).output) \cup Range(RelevantOf(lc).input)
    /\ res \in d_residuals[lc.vec_name].names
    /\ src \in d_outputs[lc.vec_name].names \cup d_inputs[lc.vec_name].names
    /\ <<res, src>> \in DOMAIN subjacs_info

\* the vectors' metadata, which no call changes
SameMeta(v, w) == v.name = w.name /\ v.names = w.names /\ v.ncol = w.ncol

C7_Step ==
    LET lc == lastCall'
        vn == lc.vec_name
    IN /\ \A other \in VecNames \ {vn} :
             /\ d_inputs'[other] = d_inputs[other]
             /\ d_outputs'[other] = d_outputs[other]
             /\ d_residuals'[other] = d_residuals[other]
       /\ SameMeta(d_inputs'[vn], d_inputs[vn])
       /\ SameMeta(d_outputs'[vn], d_outputs[vn])
       /\ SameMeta(d_residuals'[vn], d_residuals[vn])
       /\ IF lc.mode = "fwd"
          THEN /\ d_outputs'[vn].views_flat = d_outputs[vn].views_flat
               /\ d_inputs'[vn].views_flat = d_inputs[vn].views_flat
               /\ \A v \in OutputVars :
                     d_residuals'[vn].views_flat[v] # d_residuals[vn].views_flat[v]
                        => \E src \in OutputVars \cup InputVars : PassesFilter(v, src, lc)
          ELSE /\ d_residuals'[vn].views_flat = d_residuals[vn].views_flat
               /\ \A v \in OutputVars :
                     d_outputs'[vn].views_flat[v] # d_outputs[vn].views_flat[v]
                        => /\ v \in d_outputs[vn].names
                           /\ \E res \in OutputVars : PassesFilter(res, v, lc)
               /\ \A v \in InputVars :
                     d_inputs'[vn].views_flat[v] # d_inputs[vn].views_flat[v]
                        => /\ v \in d_inputs[vn].names
                           /\ \E res \in OutputVars : PassesFilter(res, v, lc)
       \* only defined pairs are visited, so an undefined pair cannot raise
       /\ \A j \in 1..Len(lc.keys) : lc.keys[j] \in DOMAIN subjacs_info

\* C7: an _apply call changes only d_residuals[response] (forward) or
\* d_outputs[source] / d_inputs[source] (reverse) of pairs that are relevant,
\* active and defined; every other vector entry, and every other vector, is
\* unchanged; a pair with no sub-Jacobian is never visited.
C7_OnlyFilteredPairs == [][ApplyStep => C7_Step]_vars

\* a forward call on the root system that changed d_residuals["e.y"], passed
\* over the key ("g.z", "e.x") because "g.z" is not active, and met the
\* undefined pair ("e.y", "g.z")
C7_Witness ==
    /\ lastCall.mode = "fwd" /\ lastCall.system = RootPath /\ lastCall.vec_name = "linear"
    /\ lastCall.raised = ""
    /\ lastCall.keys = << <<"e.y", "e.x">>, <<"g.z", "e.x">> >>
    /\ "g.z" \notin d_residuals["linear"].names
    /\ <<"e.y", "g.z">> \notin DOMAIN subjacs_info
    /\ d_residuals["linear"].views_flat["e.y"] # d_residuals["rhs1"].views_flat["e.y"]

PairsHolding(key) == {e \in DOMAIN iter_keys : key \in Range(iter_keys[e])}

\* C9 as claimed: the 'csc' / 'csc_val_map' of an entry are built at most once.
C9_BuiltOncePerEntry == \A key \in AllKeys : buildCount[key] <= 1

\* C9 as amended: the 'csc' / 'csc_val_map' of a sparse entry are built once
\* for each (system.pathname, vec_name) pair whose key list holds the entry
\* (when that list is computed), and never for a dense entry.
C9_BuiltOncePerPair ==
    \A key \in AllKeys :
       buildCount[key] =
          IF key \in DOMAIN subjacs_info /\ subjacs_info[key].hasRows
          THEN Cardinality(PairsHolding(key)) ELSE 0

\* a sparse entry built twice, for two pairs
C9_Witness ==
    /\ buildCount[<<"e.y", "e.x">>] = 2
    /\ Cardinality(PairsHolding(<<"e.y", "e.x">>)) = 2

\* the keys in the order of the loops: responses in relevant-output order,
\* for each the sources among the relevant outputs and then the relevant
\* inputs; only the keys in `defined`
KeysInLoopOrder(rel, defined) ==
    LET names == rel.output \o rel.input
        n == Len(names)
        all == [j \in 1..(Len(rel.output) * n) |->
                  <<rel.output[((j - 1) \div n) + 1], names[((j - 1) % n) + 1]>>]
    IN SelectSeq(all, LAMBDA key : key \in defined)

C10_Step ==
    LET lc == lastCall'
        entry == <<lc.system, lc.vec_name>>
    IN IF entry \in DOMAIN iter_keys
       THEN /\ lc.hit
            /\ lc.keys = iter_keys[entry]
            /\ iter_keys' = iter_keys
            /\ buildCount' = buildCount
       ELSE /\ ~lc.hit
            /\ lc.keys = KeysInLoopOrder(RelevantOf(lc), DOMAIN subjacs_info)
            /\ DOMAIN iter_keys' = DOMAIN iter_keys \cup {entry}
            /\ iter_keys'[entry] = lc.keys
            /\ \A e \in DOMAIN iter_keys : iter_keys'[e] = iter_keys[e]

\* C10: for a (pathname, vec_name) pair the key list is computed on the first
\* call, in loop order; every later call gets that same list, builds nothing
\* and leaves the cache alone, whatever was defined in between; and nothing
\* but a first call changes the cache.
C10_KeyListCached ==
    [][(ApplyStep => C10_Step) /\ (~ApplyStep => iter_keys' = iter_keys)]_vars

\* a later call for a pair, with a key defined after the first call that the
\* call does not apply
C10_Witness ==
    /\ lastCall.hit
    /\ \E key \in DOMAIN subjacs_info :
          /\ key \in Range(KeysInLoopOrder(RelevantOf(lastCall), DOMAIN subjacs_info))
          /\ key \notin Range(lastCall.keys)

\* ---------------------------------------------------------------------------
\* The products as mathematics, on the matrix an entry stands for
\* ---------------------------------------------------------------------------

\* the matrix of a dense entry
DenseMat(shape, value) ==
    [r \in 1..shape[1] |-> [c \in 1..shape[2] |-> value[(r - 1) * shape[2] + c]]]

\* the matrix of a COO entry: value[k] added at (rows[k], cols[k]) for every k
CooMat(shape, rows, cols, value) ==
    [r \in 1..shape[1] |->
       [c \in 1..shape[2] |->
          SumSeq([k \in 1..Len(rows) |->
                    IF rows[k] = r - 1 /\ cols[k] = c - 1 THEN value[k] ELSE 0])]]

MatOf(info, value) ==
    IF info.hasRows THEN CooMat(info.shape, info.rows, info.cols, value)
    ELSE DenseMat(info.shape, value)

\* M x  and  transpose(M) y
MatVec(M, x) == [r \in 1..Len(M) |-> SumSeq([c \in 1..Len(x) |-> M[r][c] * x[c]])]
MatTVec(M, n, y) == [c \in 1..n |-> SumSeq([r \in 1..Len(M) |-> M[r][c] * y[r]])]

\* the value the call lastCall' uses for a key (line 127-130), from the state before it
UsedSubjac(key, lc) ==
    IF randomize THEN RandomizeSubjac(subjacs_info[key].value, key, lc.rsel)
    ELSE subjacs_info[key].value

\* a key whose response and source are active in the call's vectors
ActiveKey(key, vn) ==
    /\ key[1] \in d_residuals[vn].names
    /\ key[2] \in d_outputs[vn].names \cup d_inputs[vn].names

\* the vector the call reads the source from (forward) or adds into (reverse)
SourceRole(key, vn) == IF key[2] \in d_outputs[vn].names THEN "o" ELSE "i"

PreViews(role, vn) ==
    IF role = "o" THEN d_outputs[vn].views_flat
    ELSE IF role = "i" THEN d_inputs[vn].views_flat
    ELSE d_residuals[vn].views_flat

\* a key for which the call takes the identity shortcut
ShortcutKey(key, lc) ==
    /\ subjacs_info[key].hasRows
    /\ key[2] \in d_outputs[lc.vec_name].names
    /\ key[1] = key[2]
    /\ IsExplicit(lc.system)

DenseKey(key, lc) == ~subjacs_info[key].hasRows
CooKey(key, lc) == subjacs_info[key].hasRows /\ ~ShortcutKey(key, lc)

\* the active keys among the first n of the call's list that add into
\* variable v of the vector `role`
Contributors(v, role, lc, n) ==
    {j \in 1..n :
        /\ ActiveKey(lc.keys[j], lc.vec_name)
        /\ IF lc.mode = "fwd" THEN role = "r" /\ lc.keys[j][1] = v
           ELSE role = SourceRole(lc.keys[j], lc.vec_name) /\ lc.keys[j][2] = v}

\* what key number j of the call adds into column col of its target
Contribution(j, col, lc) ==
    LET key == lc.keys[j]
        vn == lc.vec_name
        M == MatOf(subjacs_info[key], UsedSubjac(key, lc))
    IN IF lc.mode = "fwd"
       THEN MatVec(M, PreViews(SourceRole(key, vn), vn)[key[2]][col])
       ELSE MatTVec(M, subjacs_info[key].shape[2], PreViews("r", vn)[key[1]][col])

\* column col of variable v of vector `role` before the call, plus the
\* contributions of the keys in J
Accumulated(v, role, col, lc, J) ==
    [e \in 1..VarSize[v] |->
       PreViews(role, lc.vec_name)[v][col][e]
       + SumSeq([j \in 1..Len(lc.keys) |-> IF j \in J THEN Contribution(j, col, lc)[e] ELSE 0])]

PostViews(role, vn) ==
    IF role = "o" THEN d_outputs'[vn].views_flat
    ELSE IF role = "i" THEN d_inputs'[vn].views_flat
    ELSE d_residuals'[vn].views_flat

RoleVars(role) == IF role = "i" THEN InputVars ELSE OutputVars

\* ---------------------------------------------------------------------------
\* C2: dense entries
\* ---------------------------------------------------------------------------

C2_Step ==
    LET lc == lastCall'
        vn == lc.vec_name
        ncol == d_residuals[vn].ncol
    IN \A role \in {"r", "o", "i"} : \A v \in RoleVars(role) :
          LET J == Contributors(v, role, lc, lc.done)
          IN (\A j \in J : DenseKey(lc.keys[j], lc)) =>
                \A col \in 1..ncol :
                   /\ PostViews(role, vn)[v][col] = Accumulated(v, role, col, lc, J)
                   \* J = 2I (3x3), operand [1,1,1], zero target: the target ends as [2,2,2]
                   /\ \A j \in J :
                        ( /\ J = {j}
                          /\ UsedSubjac(lc.keys[j], lc) = <<2, 0, 0,  0, 2, 0,  0, 0, 2>>
                          /\ PreViews(role, vn)[v][col] = <<0, 0, 0>>
                          /\ (IF lc.mode = "fwd"
                              THEN PreViews(SourceRole(lc.keys[j], vn), vn)[lc.keys[j][2]][col]
                              ELSE PreViews("r", vn)[lc.keys[j][1]][col]) = <<1, 1, 1>> )
                        => PostViews(role, vn)[v][col] = <<2, 2, 2>>

\* C2: after an _apply call, every vector entry that only dense keys add into
\* holds its contents from before the call plus, for each such key the call
\* processed, J v[source] (forward, into d_residuals[response]) or
\* transpose(J) d_residuals[response] (reverse, into v[source]), where v is
\* d_outputs if the source is active there and d_inputs otherwise; and 2I on
\* [1,1,1] added to zero gives [2,2,2].
C2_DenseAccumulates == [][ApplyStep => C2_Step]_vars

\* the forward product of the dense 2I with d_inputs["e.x"] = [1,1,1], added
\* to a zero d_residuals["e.y"]
C2_Witness ==
    /\ nApply = 1 /\ lastCall.mode = "fwd" /\ lastCall.raised = "" /\ ~randomize
    /\ lastCall.keys = << <<"e.y", "e.x">> >>
    /\ subjacs_info[<<"e.y", "e.x">>] = Dense2I
    /\ d_inputs[lastCall.vec_name].views_flat["e.x"] = << <<1, 1, 1>> >>
    /\ d_residuals[lastCall.vec_name].views_flat["e.y"] = << <<2, 2, 2>> >>

\* the reverse product: d_residuals["e.y"] = [1,1,1] into a zero d_inputs["e.x"]
C2_WitnessReverse ==
    /\ nApply = 1 /\ lastCall.mode = "rev" /\ lastCall.raised = "" /\ ~randomize
    /\ lastCall.keys = << <<"e.y", "e.x">> >>
    /\ subjacs_info[<<"e.y", "e.x">>] = Dense2I
    /\ d_residuals[lastCall.vec_name].views_flat["e.y"] = << <<1, 1, 1>> >>
    /\ d_inputs[lastCall.vec_name].views_flat["e.x"] = << <<2, 2, 2>> >>

\* ---------------------------------------------------------------------------
\* C4: COO entries, one column
\* ---------------------------------------------------------------------------

\* a COO pattern that names one (row, col) position more than once
HasDuplicate(info) ==
    /\ info.hasRows
    /\ \E k1, k2 \in 1..Len(info.rows) :
          k1 < k2 /\ info.rows[k1] = info.rows[k2] /\ info.cols[k1] = info.cols[k2]

\* the call returns, and every vector entry that only COO keys (general sparse
\* path) add into holds its contents from before the call plus the scatter-add
\* of every such key of the call's list, with the values current at the call
C4_Step ==
    LET lc == lastCall'
        vn == lc.vec_name
    IN d_residuals[vn].ncol = 1 =>
          /\ lc.raised = ""
          /\ \A role \in {"r", "o", "i"} : \A v \in RoleVars(role) :
                LET J == Contributors(v, role, lc, Len(lc.keys))
                IN (\A j \in J : CooKey(lc.keys[j], lc)) =>
                      PostViews(role, vn)[v][1] = Accumulated(v, role, 1, lc, J)

\* C4: over any sequence of _apply calls and value updates, each single-column
\* call adds, for every COO entry it visits, value[k] * operand[cols[k]] at
\* rows[k] for every k (reverse: rows and cols swapped), with the values
\* current at that call, for every COO pattern.
C4_CooScatterAdd == [][ApplyStep => C4_Step]_vars

\* the same, for the calls whose key list holds no pattern with a repeated
\* (row, col) position
C4_CooScatterAddNoDuplicates ==
    [][(ApplyStep /\ \A j \in 1..Len(lastCall'.keys) :
                        ~HasDuplicate(subjacs_info[lastCall'.keys[j]]))
       => C4_Step]_vars

\* a second single-column call on the unsorted pattern, after its values changed
C4_WitnessNoDuplicates ==
    /\ nApply = 2 /\ nUpdates = 1 /\ lastCall.raised = "" /\ lastCall.hit
    /\ <<"e.y", "e.x">> \in Range(lastCall.keys)
    /\ <<"e.y", "e.x">> \in DOMAIN subjacs_info
    /\ subjacs_info[<<"e.y", "e.x">>].hasRows
    /\ subjacs_info[<<"e.y", "e.x">>].rows = CooUnsorted.rows
    /\ subjacs_info[<<"e.y", "e.x">>].value = NewValue(CooUnsorted.value, 1)
    /\ d_residuals[lastCall.vec_name].ncol = 1
    /\ "e.y" \in d_residuals[lastCall.vec_name].names
    /\ "e.x" \in d_inputs[lastCall.vec_name].names

\* a single-column call that visits the pattern with a repeated position
C4_WitnessDuplicate ==
    /\ nApply >= 1 /\ lastCall.raised = "ValueError"
    /\ <<"e.y", "e.x">> \in DOMAIN subjacs_info
    /\ HasDuplicate(subjacs_info[<<"e.y", "e.x">>])
    /\ d_residuals[lastCall.vec_name].ncol = 1

\* ---------------------------------------------------------------------------
\* C3: the identity shortcut against the general sparse path
\* ---------------------------------------------------------------------------

\* the entry with diag everywhere in its value array, converted as
\* _iter_abs_keys converts it
ConstantEntry(info, diag) ==
    BuildCsc([info EXCEPT !.value = [k \in 1..Len(info.rows) |-> diag]])

\* the condition of the shortcut, in the terms of the loop
TakesShortcut(info, key, c) ==
    /\ key[1] \in c.d_res_names
    /\ info.hasRows
    /\ key[2] \in c.d_out_names
    /\ key[1] = key[2]
    /\ c.is_explicit

\* The loop of _apply in which every key that would take the shortcut runs
\* the general sparse path instead, on its entry with diag as value.
RECURSIVE GeneralPathKeys(_, _, _, _, _)
GeneralPathKeys(st, keys, k, c, diag) ==
    IF k > Len(keys) \/ st.raised # "" THEN st
    ELSE LET key == keys[k]
             st1 == IF TakesShortcut(st.subjacs[key], key, c)
                    THEN ApplyKey([st EXCEPT !.subjacs[key] = ConstantEntry(@, diag)], key,
                                  [c EXCEPT !.is_explicit = FALSE, !.randomize = FALSE])
                    ELSE ApplyKey(st, key, c)
         IN GeneralPathKeys(st1, keys, k + 1, c, diag)

\* a call that takes the shortcut leaves the vectors as the general path with
\* diag on the diagonal leaves them
C3_Step(diag) ==
    LET lc == lastCall'
        vn == lc.vec_name
        c == CallContext(lc.system, d_inputs[vn], d_outputs[vn], d_residuals[vn],
                         lc.mode, randomize, lc.rsel)
        ik == IterAbsKeys(lc.system, vn, iter_keys, subjacs_info)
    IN (\E j \in 1..Len(lc.keys) : TakesShortcut(subjacs_info[lc.keys[j]], lc.keys[j], c)) =>
        \E ref \in {GeneralPathKeys([r |-> d_residuals[vn].views_flat,
                                     o |-> d_outputs[vn].views_flat,
                                     i |-> d_inputs[vn].views_flat,
                                     subjacs |-> ik.subjacs, raised |-> "", done |-> 0],
                                    lc.keys, 1, c, diag)} :
          /\ ref.raised = lc.raised
          /\ d_residuals'[vn].views_flat = ref.r
          /\ d_outputs'[vn].views_flat = ref.o
          /\ d_inputs'[vn].views_flat = ref.i

ColumnOf(vec, i) ==
    [vec EXCEPT !.ncol = 1,
                !.views_flat = [v \in DOMAIN vec.views_flat |-> <<vec.views_flat[v][i]>>]]

C5_Step ==
    LET lc == lastCall'
        vn == lc.vec_name
        ncol == d_residuals[vn].ncol
    IN ncol > 1 =>
          \A i \in 1..ncol :
             \E single \in {ApplyResult(lc.system, ColumnOf(d_inputs[vn], i),
                                         ColumnOf(d_outputs[vn], i), ColumnOf(d_residuals[vn], i),
                                         lc.mode, subjacs_info, iter_keys, randomize, lc.rsel)} :
                /\ single.raised = lc.raised
                /\ \A v \in OutputVars :
                     /\ d_residuals'[vn].views_flat[v][i] = single.d_residuals.views_flat[v][1]
                     /\ d_outputs'[vn].views_flat[v][i] = single.d_outputs.views_flat[v][1]
                /\ \A v \in InputVars :
                     d_inputs'[vn].views_flat[v][i] = single.d_inputs.views_flat[v][1]

\* C5: an _apply call on vectors of more than one column leaves in column i
\* of d_residuals, d_outputs and d_inputs what the single-column _apply leaves
\* when given column i alone, for every i, forward and reverse.
C5_ColumnsIndependent == [][ApplyStep => C5_Step]_vars

\* a two-column call that ran the general sparse path on a COO entry
C5_Witness ==
    /\ nApply >= 1 /\ lastCall.raised = "" /\ lastCall.done >= 1
    /\ d_residuals[lastCall.vec_name].ncol = 2
    /\ <<"e.y", "e.x">> \in Range(lastCall.keys)
    /\ subjacs_info[<<"e.y", "e.x">>].hasRows
    /\ subjacs_info[<<"e.y", "e.x">>].rows = CooUnsorted.rows
    /\ "e.y" \in d_residuals[lastCall.vec_name].names
    /\ "e.x" \in d_inputs[lastCall.vec_name].names

C5_WitnessReverse == C5_Witness /\ lastCall.mode = "rev"

\* ---------------------------------------------------------------------------
\* C6: the reverse product is the transpose of the forward product
\* ---------------------------------------------------------------------------

\* the vectors the two products are compared on
TestVectors(n) ==
    {[k \in 1..n |-> k],
     [k \in 1..n |-> IF k = 1 THEN 1 ELSE 0],
     [k \in 1..n |-> IF k = n THEN 1 ELSE -1]}

\* views that are zero but for variable v, which holds cols
ViewsWith(varset, ncol, v, cols) ==
    [w \in varset |-> IF w = v THEN cols
                      ELSE [c \in 1..ncol |-> [e \in 1..VarSize[w] |-> 0]]]

\* ncol columns made from x: x itself, then x shifted
ColumnsFrom(x, ncol) == [c \in 1..ncol |-> [k \in 1..Len(x) |-> x[k] + (c - 1) * k]]

\* The loop body of _apply for one key, all names active, forward on operand
\* xs against a zero d_residuals and reverse on d_residuals = ys against zero
\* operand vectors; y.F = R.x in every column.
TransposeHolds(info, key, system, ncol, rs) ==
    LET c == [fwd |-> TRUE, d_res_names |-> OutputVars, d_out_names |-> OutputVars,
              d_inp_names |-> InputVars, ncol |-> ncol, is_explicit |-> IsExplicit(system),
              randomize |-> randomize, rsel |-> rs]
        isOut == key[2] \in OutputVars
        zr == ViewsWith(OutputVars, ncol, "", <<>>)
        zi == ViewsWith(InputVars, ncol, "", <<>>)
        sub == [k \in {key} |-> info]
    IN \A x \in TestVectors(VarSize[key[2]]) :
       \E xs \in {ColumnsFrom(x, ncol)} :
       \E stF \in {ApplyKey([r |-> zr,
                            o |-> IF isOut THEN ViewsWith(OutputVars, ncol, key[2], xs) ELSE zr,
                            i |-> IF isOut THEN zi ELSE ViewsWith(InputVars, ncol, key[2], xs),
                            subjacs |-> sub, raised |-> "", done |-> 0], key, c)} :
       \A y \in TestVectors(VarSize[key[1]]) :
       \E ys \in {ColumnsFrom(y, ncol)} :
       \E stR \in {ApplyKey([r |-> ViewsWith(OutputVars, ncol, key[1], ys), o |-> zr, i |-> zi,
                            subjacs |-> sub, raised |-> "", done |-> 0], key,
                           [c EXCEPT !.fwd = FALSE])} :
          LET F == stF.r[key[1]]
              R == IF isOut THEN stR.o[key[2]] ELSE stR.i[key[2]]
          IN /\ stF.raised = stR.raised
             /\ \A col \in 1..ncol : Dot(ys[col], F[col]) = Dot(R[col], xs[col])

\* the entry as the loop finds it: converted by _iter_abs_keys if sparse
AsVisited(info) == IF info.hasRows /\ ~info.hasCsc THEN BuildCsc(info) ELSE info

TransposeHoldsFor(info, key) ==
    \A system \in Systems : \A ncol \in {1, 2} :
       \A rs \in (IF randomize THEN RandSeeds ELSE {0}) :
          TransposeHolds(info, key, system, ncol, rs)

\* C6: for every defined entry, every system, one or two columns and all
\* test vectors x, y: the increment F that the forward loop body adds to a
\* zero d_residuals[response] on operand x and the increment R that the
\* reverse loop body adds to a zero operand vector on d_residuals[response] = y
\* satisfy y.F = R.x.
C6_TransposeConsistent ==
    \A key \in DOMAIN subjacs_info :
       \E info \in {AsVisited(subjacs_info[key])} : TransposeHoldsFor(info, key)

\* a reverse call has run on the unsorted (non-symmetric) COO entry
C6_Witness ==
    /\ nApply >= 1 /\ lastCall.mode = "rev" /\ lastCall.raised = ""
    /\ <<"e.y", "e.x">> \in Range(lastCall.keys)
    /\ subjacs_info[<<"e.y", "e.x">>].hasCsc
    /\ subjacs_info[<<"e.y", "e.x">>].rows = CooUnsorted.rows
    /\ "e.y" \in d_residuals[lastCall.vec_name].names
    /\ "e.x" \in d_inputs[lastCall.vec_name].names

\* a reverse call has run on the dense 2x3 entry
C6_WitnessDense ==
    /\ nApply >= 1 /\ lastCall.mode = "rev" /\ lastCall.raised = ""
    /\ <<"g.z", "e.x">> \in Range(lastCall.keys)
    /\ ~subjacs_info[<<"g.z", "e.x">>].hasRows
    /\ "g.z" \in d_residuals[lastCall.vec_name].names
    /\ "e.x" \in d_inputs[lastCall.vec_name].names

\* a reverse call has taken the identity shortcut
C6_WitnessShortcut ==
    /\ nApply >= 1 /\ lastCall.mode = "rev" /\ lastCall.raised = ""
    /\ lastCall.system = CompPath
    /\ <<"e.y", "e.y">> \in Range(lastCall.keys)
    /\ "e.y" \in d_residuals[lastCall.vec_name].names
    /\ "e.y" \in d_outputs[lastCall.vec_name].names

====
